---- MODULE Spec2Model ----
(***************************************************************************)
(* Model of the DFW election map: the server (src/unnamed/part_000: schema *)
(* initializer, CSV and GeoJSON loaders, query endpoints over one SQLite   *)
(* handle) and the map client (src/public/main.js: updateMap).             *)
(*                                                                         *)
(* Conventions.  A JavaScript value is a record [t, s, n] whose tag t is   *)
(* "undefined", "null", "string" or "number"; a SQL value is a record of   *)
(* the same shape with tag "null", "text" or "integer".  JSON text is a    *)
(* sequence of tokens.  The columns of the precincts table always hold     *)
(* text (the loader never binds a null to them), so a precinct row holds   *)
(* plain strings.  Rows carry two fields the program does not have: src,   *)
(* the position of the source record, and run, the number of the process   *)
(* run that inserted the row.                                              *)
(***************************************************************************)
EXTENDS Integers, Sequences, FiniteSets, TLC

\* ------------------------------------------------------------ bounds
MaxFeatures == 2
MaxRecords == 2
MaxRuns == 2
MaxCalls == 3

\* ------------------------------------------------- JavaScript values
Undefined == [t |-> "undefined", s |-> "", n |-> 0]
Null == [t |-> "null", s |-> "", n |-> 0]
Str(s) == [t |-> "string", s |-> s, n |-> 0]
Num(n) == [t |-> "number", s |-> "", n |-> n]

\* ToBoolean: undefined, null, "" and 0 are falsy.
Truthy(v) ==
  \/ v.t = "string" /\ v.s # ""
  \/ v.t = "number" /\ v.n # 0

\* a || b
OrElse(a, b) == IF Truthy(a) THEN a ELSE b

\* String(v), and the conversion a template literal applies to ${v}.
ToStr(v) ==
  CASE v.t = "string" -> v.s
    [] v.t = "number" -> ToString(v.n)
    [] v.t = "null" -> "null"
    [] OTHER -> "undefined"

\* A property of an object: a missing property reads as undefined.
Prop(obj, name) == IF name \in DOMAIN obj THEN obj[name] ELSE Undefined

\* ------------------------------------------------------------- JSON
\* A parsed JSON value: null, a number, a string, an array (items) or an
\* object (keys in member order, items their values).
JNull == [k |-> "null", n |-> 0, s |-> "", keys |-> <<>>, items |-> <<>>]
JNum(n) == [k |-> "number", n |-> n, s |-> "", keys |-> <<>>, items |-> <<>>]
JStr(s) == [k |-> "string", n |-> 0, s |-> s, keys |-> <<>>, items |-> <<>>]
JArr(items) == [k |-> "array", n |-> 0, s |-> "", keys |-> <<>>, items |-> items]
JObj(keys, items) == [k |-> "object", n |-> 0, s |-> "", keys |-> keys, items |-> items]

Tok(t, v) == [t |-> t, v |-> v]

\* The numbers a JSON text of the model can hold.
JsonNumbers == -3 .. 3

RECURSIVE Stringify(_)
RECURSIVE StringifyItems(_, _)
RECURSIVE StringifyMembers(_, _, _)

\* The elements of an array from position i on, separated by commas.
StringifyItems(items, i) ==
  IF i > Len(items) THEN <<>>
  ELSE (IF i > 1 THEN <<Tok("punct", ",")>> ELSE <<>>)
       \o Stringify(items[i]) \o StringifyItems(items, i + 1)

\* The members of an object from position i on: "key": value, ...
StringifyMembers(keys, items, i) ==
  IF i > Len(keys) THEN <<>>
  ELSE (IF i > 1 THEN <<Tok("punct", ",")>> ELSE <<>>)
       \o <<Tok("string", keys[i]), Tok("punct", ":")>>
       \o Stringify(items[i]) \o StringifyMembers(keys, items, i + 1)

\* JSON.stringify(v) as the sequence of tokens of the text.
Stringify(v) ==
  CASE v.k = "null" -> <<Tok("null", "null")>>
    [] v.k = "number" -> <<Tok("number", ToString(v.n))>>
    [] v.k = "string" -> <<Tok("string", v.s)>>
    [] v.k = "array" ->
         <<Tok("punct", "[")>> \o StringifyItems(v.items, 1) \o <<Tok("punct", "]")>>
    [] OTHER ->
         <<Tok("punct", "{")>> \o StringifyMembers(v.keys, v.items, 1)
           \o <<Tok("punct", "}")>>

RECURSIVE ParseValue(_, _)
RECURSIVE ParseItems(_, _, _)
RECURSIVE ParseMembers(_, _, _, _)

\* The elements of an array whose "[" has been read; p is the next token.
ParseItems(toks, p, acc) ==
  IF toks[p] = Tok("punct", "]") THEN [val |-> JArr(acc), pos |-> p + 1]
  ELSE LET q == IF toks[p] = Tok("punct", ",") THEN p + 1 ELSE p
           r == ParseValue(toks, q)
       IN ParseItems(toks, r.pos, Append(acc, r.val))

\* The members of an object whose "{" has been read; p is the next token.
ParseMembers(toks, p, keys, acc) ==
  IF toks[p] = Tok("punct", "}") THEN [val |-> JObj(keys, acc), pos |-> p + 1]
  ELSE LET q == IF toks[p] = Tok("punct", ",") THEN p + 1 ELSE p
           r == ParseValue(toks, q + 2)
       IN ParseMembers(toks, r.pos, Append(keys, toks[q].v), Append(acc, r.val))

\* One value starting at token p: the value and the position after it.
ParseValue(toks, p) ==
  CASE toks[p].t = "null" -> [val |-> JNull, pos |-> p + 1]
    [] toks[p].t = "number" ->
         [val |-> JNum(CHOOSE n \in JsonNumbers : ToString(n) = toks[p].v),
          pos |-> p + 1]
    [] toks[p].t = "string" -> [val |-> JStr(toks[p].v), pos |-> p + 1]
    [] toks[p] = Tok("punct", "[") -> ParseItems(toks, p + 1, <<>>)
    [] OTHER -> ParseMembers(toks, p + 1, <<>>, <<>>)

\* JSON.parse(text)
Parse(toks) == ParseValue(toks, 1).val

\* ------------------------------------------------------ source files
\* Geometry objects of the GeoJSON file, as JSON.parse returns them.
Point(x, y) ==
  JObj(<<"type", "coordinates">>, <<JStr("Point"), JArr(<<JNum(x), JNum(y)>>)>>)
Line(x1, y1, x2, y2) ==
  JObj(<<"type", "coordinates">>,
       <<JStr("LineString"),
         JArr(<<JArr(<<JNum(x1), JNum(y1)>>), JArr(<<JNum(x2), JNum(y2)>>)>>)>>)

Feat(props, geom) == [properties |-> props, geometry |-> geom]

\* The features a GeoJSON file of the server model is made of.
FeaturePool ==
  { Feat([pctkey |-> Str("P1"), county |-> Str("Dallas"), city |-> Str("Irving"),
          us_congress |-> Num(32)], Point(-3, 2)),
    Feat([county |-> Str("Dallas"), city |-> Str("Irving"),
          state_senate |-> Num(9)], Line(0, 1, -2, 3)),
    Feat([pctkey |-> Str("precinct_1"), county |-> Str("Dallas"),
          city |-> Str("Select Jurisdiction"), state_house |-> Str("5")], Point(1, 1)),
    Feat([pctkey |-> Str("P1"), county |-> Str("Select County"),
          city |-> Str("Garland")], JNull),
    Feat([county |-> Str("Tarrant")], Point(2, -1)) }

\* The property values the mapping model draws from: absent, null, the
\* falsy "" and 0, and truthy strings and numbers.
PctkeyValues == {Undefined, Null, Str(""), Num(0), Str("P1"), Str("precinct_0")}
CountyValues == {Undefined, Null, Str(""), Str("Dallas")}
CityValues == {Undefined, Null, Str(""), Str("Irving")}
CongressValues == {Undefined, Null, Num(0), Num(32)}
SenateValues == {Undefined, Num(0), Num(9)}
HouseValues == {Undefined, Str(""), Str("5")}

\* An object with exactly the properties that are not absent.
Props(k, c, j, uc, ss, sh) ==
  LET all == [pctkey |-> k, county |-> c, city |-> j, us_congress |-> uc,
              state_senate |-> ss, state_house |-> sh]
      have == {x \in DOMAIN all : all[x] # Undefined}
  IN [x \in have |-> all[x]]

WideFeatures ==
  { Feat(Props(k, c, j, uc, ss, sh), JNull) :
      k \in PctkeyValues, c \in CountyValues, j \in CityValues,
      uc \in CongressValues, ss \in SenateValues, sh \in HouseValues }

\* The records csv-parser yields: every field is a string.
Rec(k, o, c, v, p) ==
  [pctkey |-> Str(k), office |-> Str(o), candidate |-> Str(c), votes |-> Str(v),
   party_simplified |-> Str(p)]

RecordPool ==
  { Rec("P1", "Mayor", "A", "10", "X"),
    Rec("P1", "Mayor", "B", "abc", ""),
    Rec("precinct_1", "Mayor", "A", "20", "Y") }

Range(seq) == {seq[i] : i \in DOMAIN seq}

\* All sequences over S of length at most n.
SeqsUpTo(S, n) == UNION { [1 .. m -> S] : m \in 0 .. n }

VARIABLES
  geojson,         \* ./data/GDF.geojson: the features of the file, in order
  csv,             \* ./data/DFWResult(1).csv: its records, in order
  run,             \* the number of this run of the server process
  dbStep,          \* statements of the db.serialize block that have run, 0 .. 4
  precincts,       \* the rows of table precincts
  results,         \* the rows of table results
  stmtQueue,       \* positions of the features whose stmt.run is still queued
  precinctsCount,
  finalized,       \* the callback of stmt.finalize has run
  csvPos,          \* records the CSV stream has delivered so far
  resultsQueue,    \* positions of the records whose INSERT is still queued
  resultsCount,
  csvEnded,        \* the stream's "end" event has been handled
  log,             \* what console.log and console.error have written
  res,             \* the response being sent, NoResponse between requests
  layers,          \* map client: the precinct layers on the map, by call number
  currentLayer,    \* map client: the call whose layer currentLayer holds, 0 = null
  calls,           \* map client: updateMap calls made so far
  inFlight,        \* map client: the /api/precincts fetches awaiting a response
  timerPending,    \* map client: setTimeout(updateMap, 1000) has not fired
  countiesPending, \* map client: the /api/filters fetch awaits its response
  filterFetches,   \* map client: jurisdictions and districts fetches in flight
  countySelect,    \* map client: each select is [options, value, disabled];
  jurisdictionSelect, \* options are the ones after the placeholder, value ""
  districtSelect      \* is the placeholder

serverVars == <<geojson, csv, run, dbStep, precincts, results, stmtQueue, precinctsCount,
                finalized, csvPos, resultsQueue, resultsCount, csvEnded, log, res>>
clientVars == <<layers, currentLayer, calls, inFlight, timerPending, countiesPending,
                filterFetches, countySelect, jurisdictionSelect, districtSelect>>
vars == <<serverVars, clientVars>>

\* ---------------------------------------------------------- SQLite
\* The value sqlite3 binds for a JavaScript parameter.
Bind(v) ==
  CASE v.t = "string" -> [t |-> "text", s |-> v.s, n |-> 0]
    [] v.t = "number" -> [t |-> "integer", s |-> "", n |-> v.n]
    [] OTHER -> [t |-> "null", s |-> "", n |-> 0]

\* The integers a column of the model can hold.
SqlIntegers == 0 .. 40

\* A value stored in a column declared TEXT: a number becomes its text.
TextAffinity(x) ==
  IF x.t = "integer" THEN [t |-> "text", s |-> ToString(x.n), n |-> 0] ELSE x

\* A column that stores what is bound, whatever its declared type.
NoAffinity(x) == x

\* A value stored in a column declared INTEGER: text that is an integer
\* literal becomes that integer, any other text stays text.
IntegerAffinity(x) ==
  IF x.t = "text" /\ \E i \in SqlIntegers : ToString(i) = x.s
  THEN [t |-> "integer", s |-> "", n |-> CHOOSE i \in SqlIntegers : ToString(i) = x.s]
  ELSE x

\* The JavaScript value sqlite3 returns for a column value.
Unbind(x) ==
  CASE x.t = "text" -> Str(x.s)
    [] x.t = "integer" -> Num(x.n)
    [] OTHER -> Null

\* The strings of the precincts columns in the order of the BINARY
\* collation (bytewise: digits, then upper case, then "_", then lower case).
Collation ==
  << "", "32", "5", "9", "Dallas", "Garland", "Irving", "P1", "Select County",
     "Select District", "Select Jurisdiction", "Tarrant", "Unknown",
     "precinct_0", "precinct_1", "precinct_2" >>

Rank(s) == CHOOSE i \in DOMAIN Collation : Collation[i] = s

\* ORDER BY over a set of distinct values: ascending.
RECURSIVE OrderBy(_)
OrderBy(S) ==
  IF S = {} THEN <<>>
  ELSE LET m == CHOOSE x \in S : \A y \in S : Rank(x) <= Rank(y)
       IN <<m>> \o OrderBy(S \ {m})

\* A schema step that leaves an existing table and its rows in place.
KeepTable(rows) == rows

\* DROP TABLE IF EXISTS t: the table and its rows are gone.
DropTable(rows) == {}

\* CREATE TABLE t: a table with no rows.
CreateTable(rows) == rows

\* INSERT OR REPLACE: the row of the same key gives way to the new one.
InsertPrecinctOrReplace(table, row) ==
  [rows |-> {r \in table : r.pctkey # row.pctkey} \cup {row}, err |-> "OK"]

\* The insert into a table whose pctkey column is no key.
InsertPrecinctNoKey(table, row) == [rows |-> table \cup {row}, err |-> "OK"]

\* INSERT INTO precincts under pctkey TEXT PRIMARY KEY: a row whose key is in
\* the table already is refused with SQLITE_CONSTRAINT.
InsertPrecinct(table, row) ==
  IF \E r \in table : r.pctkey = row.pctkey
  THEN [rows |-> table, err |-> "SQLITE_CONSTRAINT"]
  ELSE [rows |-> table \cup {row}, err |-> "OK"]

\* INSERT INTO results: the table has no key, every row is added.
InsertResult(table, row) == table \cup {row}

\* --------------------------------------------------- precincts loader
\* The key synthesized from the one-based position.
PctkeyOneBased(feat, index) ==
  OrElse(Prop(feat.properties, "pctkey"), Str("precinct_" \o ToString(index + 1)))

Pctkey(feat, index) ==
  OrElse(Prop(feat.properties, "pctkey"), Str("precinct_" \o ToString(index)))

County(feat) == OrElse(Prop(feat.properties, "county"), Str("Unknown"))

Jurisdiction(feat) == OrElse(Prop(feat.properties, "city"), Str("Unknown"))

\* The district with state_senate looked at before us_congress.
DistrictSenateFirst(feat) ==
  OrElse(Prop(feat.properties, "state_senate"),
         OrElse(Prop(feat.properties, "us_congress"),
                OrElse(Prop(feat.properties, "state_house"), Str("Unknown"))))

District(feat) ==
  OrElse(Prop(feat.properties, "us_congress"),
         OrElse(Prop(feat.properties, "state_senate"),
                OrElse(Prop(feat.properties, "state_house"), Str("Unknown"))))

\* The text of the geometry member of the properties, which no feature has.
GeometryOfProperties(feat) == Stringify(JNull)

Geometry(feat) == Stringify(feat.geometry)

\* The row stmt.run inserts for the feature at zero-based position index.
PrecinctRow(feat, index) ==
  [pctkey |-> TextAffinity(Bind(Pctkey(feat, index))).s,
   county |-> TextAffinity(Bind(County(feat))).s,
   jurisdiction |-> TextAffinity(Bind(Jurisdiction(feat))).s,
   district |-> TextAffinity(Bind(Str(ToStr(District(feat))))).s,
   geometry |-> Geometry(feat),
   src |-> index]

\* ----------------------------------------------------- results loader
\* The row the INSERT of line 47 adds for the record at position i.
ResultRow(row, i) ==
  [pctkey |-> TextAffinity(Bind(Prop(row, "pctkey"))),
   office |-> TextAffinity(Bind(Prop(row, "office"))),
   candidate |-> TextAffinity(Bind(Prop(row, "candidate"))),
   votes |-> IntegerAffinity(Bind(Prop(row, "votes"))),
   party |-> TextAffinity(Bind(Prop(row, "party_simplified"))),
   src |-> i]

\* ------------------------------------------------------ query service
NoQuery == [county |-> Undefined, jurisdiction |-> Undefined, district |-> Undefined,
            pctkey |-> Undefined]
Query(c, j, d) == [county |-> c, jurisdiction |-> j, district |-> d, pctkey |-> Undefined]
KeyQuery(k) == [county |-> Undefined, jurisdiction |-> Undefined, district |-> Undefined,
                pctkey |-> k]

NoResponse == [endpoint |-> "none", query |-> NoQuery, status |-> 0, body |-> <<>>]

\* res.json(body)
Json(endpoint, q, body) == [endpoint |-> endpoint, query |-> q, status |-> 200, body |-> body]

\* Whether the handler answers without reading the table (lines 136, 157).
JurisdictionsEarly(q) == ~Truthy(q.county) \/ q.county = Str("Select County")

DistrictsEarly(q) ==
  \/ ~Truthy(q.county)
  \/ ~Truthy(q.jurisdiction)
  \/ q.county = Str("Select County")
  \/ q.jurisdiction = Str("Select Jurisdiction")

\* SELECT DISTINCT county FROM precincts WHERE county IS NOT NULL ORDER BY county
FiltersBody(table) == OrderBy({r.county : r \in table})

\* The query of /api/jurisdictions without its condition on county.
JurisdictionsBodyAnyCounty(table, q) ==
  IF JurisdictionsEarly(q) THEN <<>> ELSE OrderBy({r.jurisdiction : r \in table})

\* SELECT DISTINCT jurisdiction ... WHERE county=? ... ORDER BY jurisdiction
JurisdictionsBody(table, q) ==
  IF JurisdictionsEarly(q) THEN <<>>
  ELSE OrderBy({r.jurisdiction : r \in {x \in table : x.county = q.county.s}})

\* SELECT DISTINCT district ... WHERE county=? AND jurisdiction=? ... ORDER BY district
DistrictsBody(table, q) ==
  IF DistrictsEarly(q) THEN <<>>
  ELSE OrderBy({r.district :
                  r \in {x \in table : /\ x.county = q.county.s
                                       /\ x.jurisdiction = q.jurisdiction.s}})

\* The test of line 181 without its comparison with the sentinel.
UseCountyNoSentinel(q) == Truthy(q.county)

\* Whether the handler of /api/precincts adds the condition on a column.
UseCounty(q) == Truthy(q.county) /\ q.county # Str("Select County")
UseJurisdiction(q) == Truthy(q.jurisdiction) /\ q.jurisdiction # Str("Select Jurisdiction")
UseDistrict(q) == Truthy(q.district) /\ q.district # Str("Select District")

\* The rows the query built in lines 178-192 selects.
PrecinctsWhere(table, q) ==
  {r \in table : /\ UseCounty(q) => r.county = q.county.s
                 /\ UseJurisdiction(q) => r.jurisdiction = q.jurisdiction.s
                 /\ UseDistrict(q) => r.district = q.district.s}

\* The Feature built from a row (lines 202-211).
ToFeature(row) ==
  [type |-> "Feature",
   properties |-> [pctkey |-> row.pctkey, county |-> row.county,
                   jurisdiction |-> row.jurisdiction, district |-> row.district],
   geometry |-> Parse(row.geometry)]

\* The array of features, in no particular order.
PrecinctsBody(table, q) == {ToFeature(r) : r \in PrecinctsWhere(table, q)}

\* The object sqlite3 returns for a row of results under SELECT *.
ResultObject(r) ==
  [pctkey |-> Unbind(r.pctkey), office |-> Unbind(r.office),
   candidate |-> Unbind(r.candidate), votes |-> Unbind(r.votes),
   party |-> Unbind(r.party)]

\* SELECT * FROM results WHERE pctkey=?  The body is the multiset of the
\* objects returned: each object with the number of rows that gave it.
ResultsWhere(table, q) ==
  {r \in table : Bind(q.pctkey).t # "null" /\ r.pctkey = Bind(q.pctkey)}

ResultsBody(table, q) ==
  LET rows == ResultsWhere(table, q)
  IN [o \in {ResultObject(r) : r \in rows} |->
        Cardinality({r \in rows : ResultObject(r) = o})]

\* --------------------------------------------------------- requests
CountyParams == {Undefined, Str(""), Str("Select County"), Str("Dallas"), Str("Tarrant")}
JurisdictionParams == {Undefined, Str("Select Jurisdiction"), Str("Irving")}
DistrictParams == {Undefined, Str("Select District"), Str("32")}
PctkeyParams == {Undefined, Str("P1"), Str("precinct_1")}

\* What a previous run of the server left in ./db/database.sqlite.
OldPrecincts ==
  { [pctkey |-> "P1", county |-> "Tarrant", jurisdiction |-> "Garland",
     district |-> "9", geometry |-> Stringify(JNull), src |-> 0, run |-> 0],
    [pctkey |-> "precinct_2", county |-> "Dallas", jurisdiction |-> "Irving",
     district |-> "5", geometry |-> Stringify(Point(0, 0)), src |-> 1, run |-> 0] }

OldResults ==
  { [pctkey |-> Bind(Str("P1")), office |-> Bind(Str("Mayor")),
     candidate |-> Bind(Str("A")), votes |-> Bind(Num(7)), party |-> Bind(Str("X")),
     src |-> 1, run |-> 0] }

\* ------------------------------------------------------------ startup
\* The state once the top-level script has run: the serialize block, the
\* stmt.run of every feature and the stream are queued, nothing has executed.
Startup(features, records, oldP, oldR) ==
  /\ geojson = features
  /\ csv = records
  /\ run = 1
  /\ dbStep = 0
  /\ precincts = oldP
  /\ results = oldR
  /\ stmtQueue = {i - 1 : i \in DOMAIN features}
  /\ precinctsCount = Len(features)
  /\ finalized = FALSE
  /\ csvPos = 0
  /\ resultsQueue = {}
  /\ resultsCount = 0
  /\ csvEnded = FALSE
  /\ log = {}
  /\ res = NoResponse

\* A select element with only its placeholder option.
Select(options, value, disabled) ==
  [options |-> options, value |-> value, disabled |-> disabled]

\* The page once main.js has run: no layer, the counties fetch and the timer
\* pending, no option beside the placeholders.
ClientIdle ==
  /\ layers = {}
  /\ currentLayer = 0
  /\ calls = 0
  /\ inFlight = {}
  /\ timerPending = TRUE
  /\ countiesPending = TRUE
  /\ filterFetches = {}
  /\ countySelect = Select(<<>>, "", FALSE)
  /\ jurisdictionSelect = Select(<<>>, "", TRUE)
  /\ districtSelect = Select(<<>>, "", TRUE)

\* The stores a run can find: a fresh file, or what a previous run left.
Stores == {<<{}, {}>>, <<OldPrecincts, OldResults>>}

InitServer(featureFiles, recordFiles) ==
  /\ \E features \in featureFiles, records \in recordFiles, old \in Stores :
       Startup(features, records, old[1], old[2])
  /\ ClientIdle

\* ------------------------------------------------- schema initializer
DropPrecincts ==
  /\ res = NoResponse /\ dbStep = 0
  /\ precincts' = DropTable(precincts)
  /\ dbStep' = 1
  /\ UNCHANGED <<geojson, csv, run, results, stmtQueue, precinctsCount, finalized, csvPos,
                 resultsQueue, resultsCount, csvEnded, log, res, clientVars>>

DropResults ==
  /\ res = NoResponse /\ dbStep = 1
  /\ results' = DropTable(results)
  /\ dbStep' = 2
  /\ UNCHANGED <<geojson, csv, run, precincts, stmtQueue, precinctsCount, finalized, csvPos,
                 resultsQueue, resultsCount, csvEnded, log, res, clientVars>>

CreatePrecincts ==
  /\ res = NoResponse /\ dbStep = 2
  /\ precincts' = CreateTable(precincts)
  /\ dbStep' = 3
  /\ UNCHANGED <<geojson, csv, run, results, stmtQueue, precinctsCount, finalized, csvPos,
                 resultsQueue, resultsCount, csvEnded, log, res, clientVars>>

CreateResults ==
  /\ res = NoResponse /\ dbStep = 3
  /\ results' = CreateTable(results)
  /\ dbStep' = 4
  /\ UNCHANGED <<geojson, csv, run, precincts, stmtQueue, precinctsCount, finalized, csvPos,
                 resultsQueue, resultsCount, csvEnded, log, res, clientVars>>

\* ------------------------------------------------------------- loads
\* A row with the number of the run that inserts it.
Stamp(row, n) == [f \in DOMAIN row \cup {"run"} |-> IF f = "run" THEN n ELSE row[f]]

LogLine(msg, arg) == [msg |-> msg, arg |-> arg]

\* The callback of stmt.run (lines 85-89): what it writes to the console.
RunCallback(err, pctkey) ==
  IF err # "OK" /\ err # "SQLITE_CONSTRAINT"
  THEN {LogLine("Error inserting precinct", pctkey)}
  ELSE {}

\* One queued stmt.run executes.  The statement was prepared after the
\* serialize block, so the tables exist by then.
PrecinctInsert(i) ==
  /\ res = NoResponse /\ dbStep = 4
  /\ i \in stmtQueue
  /\ LET row == Stamp(PrecinctRow(geojson[i + 1], i), run)
         r == InsertPrecinct(precincts, row)
     IN /\ precincts' = r.rows
        /\ log' = log \cup RunCallback(r.err, row.pctkey)
  /\ stmtQueue' = stmtQueue \ {i}
  /\ UNCHANGED <<geojson, csv, run, dbStep, results, precinctsCount, finalized, csvPos,
                 resultsQueue, resultsCount, csvEnded, res, clientVars>>

\* The callback of stmt.finalize and its two verification queries.
Finalize ==
  /\ res = NoResponse /\ dbStep = 4
  /\ stmtQueue = {} /\ ~finalized
  /\ finalized' = TRUE
  /\ log' = log \cup { LogLine("GeoJSON imported", ToString(precinctsCount)),
                      LogLine("Total precincts in database",
                              ToString(Cardinality(precincts))) }
  /\ UNCHANGED <<geojson, csv, run, dbStep, precincts, results, stmtQueue, precinctsCount,
                 csvPos, resultsQueue, resultsCount, csvEnded, res, clientVars>>

\* The stream delivers the next record: its INSERT is queued (lines 45-54).
CsvData ==
  /\ res = NoResponse
  /\ csvPos < Len(csv)
  /\ csvPos' = csvPos + 1
  /\ resultsQueue' = resultsQueue \cup {csvPos + 1}
  /\ resultsCount' = resultsCount + 1
  /\ UNCHANGED <<geojson, csv, run, dbStep, precincts, results, stmtQueue, precinctsCount,
                 finalized, csvEnded, log, res, clientVars>>

\* One queued INSERT INTO results executes, behind the serialize block.
ResultInsert(i) ==
  /\ res = NoResponse /\ dbStep = 4
  /\ i \in resultsQueue
  /\ results' = InsertResult(results, Stamp(ResultRow(csv[i], i), run))
  /\ resultsQueue' = resultsQueue \ {i}
  /\ UNCHANGED <<geojson, csv, run, dbStep, precincts, stmtQueue, precinctsCount, finalized,
                 csvPos, resultsCount, csvEnded, log, res, clientVars>>

\* The stream ends (lines 55-57).
CsvEnd ==
  /\ res = NoResponse
  /\ csvPos = Len(csv) /\ ~csvEnded
  /\ csvEnded' = TRUE
  /\ log' = log \cup {LogLine("Results CSV imported", ToString(resultsCount))}
  /\ UNCHANGED <<geojson, csv, run, dbStep, precincts, results, stmtQueue, precinctsCount,
                 finalized, csvPos, resultsQueue, resultsCount, clientVars, res>>

PrecinctsLoaded == finalized
ResultsLoaded == csvEnded /\ resultsQueue = {}

\* The process is stopped once both loads are done and started again on the
\* same source files: the store file stays, everything in memory is new.
Restart ==
  /\ res = NoResponse
  /\ PrecinctsLoaded /\ ResultsLoaded
  /\ run < MaxRuns
  /\ run' = run + 1
  /\ dbStep' = 0
  /\ stmtQueue' = {i - 1 : i \in DOMAIN geojson}
  /\ precinctsCount' = Len(geojson)
  /\ finalized' = FALSE
  /\ csvPos' = 0
  /\ resultsQueue' = {}
  /\ resultsCount' = 0
  /\ csvEnded' = FALSE
  /\ log' = {}
  /\ UNCHANGED <<geojson, csv, precincts, results, res, clientVars>>

\* ---------------------------------------------------------- endpoints
\* A handler runs its query and sends the response in one callback; Sent is
\* the end of that callback.  A query waits behind the serialize block.
Respond(r) ==
  /\ res = NoResponse
  /\ res' = r
  /\ UNCHANGED <<geojson, csv, run, dbStep, precincts, results, stmtQueue, precinctsCount,
                 finalized, csvPos, resultsQueue, resultsCount, csvEnded, log, clientVars>>

Sent ==
  /\ res # NoResponse
  /\ res' = NoResponse
  /\ UNCHANGED <<geojson, csv, run, dbStep, precincts, results, stmtQueue, precinctsCount,
                 finalized, csvPos, resultsQueue, resultsCount, csvEnded, log, clientVars>>

GetFilters ==
  /\ dbStep = 4
  /\ Respond(Json("filters", NoQuery, FiltersBody(precincts)))

GetJurisdictions(q) ==
  /\ JurisdictionsEarly(q) \/ dbStep = 4
  /\ Respond(Json("jurisdictions", q, JurisdictionsBody(precincts, q)))

GetDistricts(q) ==
  /\ DistrictsEarly(q) \/ dbStep = 4
  /\ Respond(Json("districts", q, DistrictsBody(precincts, q)))

GetPrecincts(q) ==
  /\ dbStep = 4
  /\ Respond(Json("precincts", q, PrecinctsBody(precincts, q)))

GetResults(q) ==
  /\ dbStep = 4
  /\ Respond(Json("results", q, ResultsBody(results, q)))

\* ------------------------------------------------------- map client
\* The value of a select as the query parameter updateMap sends: a
\* parameter is appended only for a non-empty value (lines 125-127).
Param(value) == IF value # "" THEN Str(value) ELSE Undefined

\* updateMap() with the selects holding county, jurisdiction and district:
\* the current layer is taken off the map and the fetch is sent.
UpdateMap(county, jurisdiction, district) ==
  /\ calls < MaxCalls
  /\ calls' = calls + 1
  /\ layers' = IF currentLayer # 0 THEN layers \ {currentLayer} ELSE layers
  /\ currentLayer' = 0
  /\ inFlight' = inFlight \cup
       {[call |-> calls + 1,
         query |-> Query(Param(county), Param(jurisdiction), Param(district))]}

\* The listener of "change" on the county select (lines 51-80) with the
\* select holding county.
OnCountyChange(county) ==
  /\ jurisdictionSelect' = Select(<<>>, "", county = "")
  /\ districtSelect' = Select(<<>>, "", TRUE)
  /\ filterFetches' =
       IF county # ""
       THEN filterFetches \cup
              {[kind |-> "jurisdictions", call |-> calls + 1,
                query |-> Query(Str(county), Undefined, Undefined)]}
       ELSE filterFetches
  /\ UpdateMap(county, "", "")

\* The response of /api/filters arrives (lines 25-40): the options are
\* rebuilt, and a single county is selected and its change event dispatched.
CountiesArrive ==
  /\ countiesPending /\ dbStep = 4
  /\ countiesPending' = FALSE
  /\ LET counties == FiltersBody(precincts)
     IN IF Len(counties) = 1
        THEN /\ countySelect' = Select(counties, counties[1], FALSE)
             /\ OnCountyChange(counties[1])
             /\ UNCHANGED timerPending
        ELSE /\ countySelect' = Select(counties, "", FALSE)
             /\ UNCHANGED <<layers, currentLayer, calls, inFlight, timerPending,
                            filterFetches, jurisdictionSelect, districtSelect>>
  /\ UNCHANGED serverVars

\* The user picks another option of the county select.
CountyChange(v) ==
  /\ v \in Range(countySelect.options) \cup {""}
  /\ v # countySelect.value
  /\ countySelect' = [countySelect EXCEPT !.value = v]
  /\ OnCountyChange(v)
  /\ UNCHANGED <<serverVars, timerPending, countiesPending>>

\* The response of a jurisdictions fetch arrives (lines 66-75): its values
\* are appended to the select.
JurisdictionsArrive(f) ==
  /\ f \in filterFetches /\ f.kind = "jurisdictions"
  /\ JurisdictionsEarly(f.query) \/ dbStep = 4
  /\ filterFetches' = filterFetches \ {f}
  /\ jurisdictionSelect' =
       [jurisdictionSelect EXCEPT
          !.options = @ \o JurisdictionsBody(precincts, f.query),
          !.disabled = FALSE]
  /\ UNCHANGED <<serverVars, layers, currentLayer, calls, inFlight, timerPending,
                 countiesPending, countySelect, districtSelect>>

\* The user picks another option of the jurisdiction select (lines 83-110).
JurisdictionChange(v) ==
  /\ ~jurisdictionSelect.disabled
  /\ v \in Range(jurisdictionSelect.options) \cup {""}
  /\ v # jurisdictionSelect.value
  /\ jurisdictionSelect' = [jurisdictionSelect EXCEPT !.value = v]
  /\ districtSelect' = Select(<<>>, "", v = "")
  /\ filterFetches' =
       IF countySelect.value # "" /\ v # ""
       THEN filterFetches \cup
              {[kind |-> "districts", call |-> calls + 1,
                query |-> Query(Str(countySelect.value), Str(v), Undefined)]}
       ELSE filterFetches
  /\ UpdateMap(countySelect.value, v, "")
  /\ UNCHANGED <<serverVars, timerPending, countiesPending, countySelect>>

\* The response of a districts fetch arrives (lines 96-105).
DistrictsArrive(f) ==
  /\ f \in filterFetches /\ f.kind = "districts"
  /\ DistrictsEarly(f.query) \/ dbStep = 4
  /\ filterFetches' = filterFetches \ {f}
  /\ districtSelect' =
       [districtSelect EXCEPT
          !.options = @ \o DistrictsBody(precincts, f.query),
          !.disabled = FALSE]
  /\ UNCHANGED <<serverVars, layers, currentLayer, calls, inFlight, timerPending,
                 countiesPending, countySelect, jurisdictionSelect>>

\* The user picks another option of the district select (line 113).
DistrictChange(v) ==
  /\ ~districtSelect.disabled
  /\ v \in Range(districtSelect.options) \cup {""}
  /\ v # districtSelect.value
  /\ districtSelect' = [districtSelect EXCEPT !.value = v]
  /\ UpdateMap(countySelect.value, jurisdictionSelect.value, v)
  /\ UNCHANGED <<serverVars, timerPending, countiesPending, filterFetches, countySelect,
                 jurisdictionSelect>>

\* setTimeout(updateMap, 1000) fires (line 327).
InitialUpdate ==
  /\ timerPending
  /\ timerPending' = FALSE
  /\ UpdateMap(countySelect.value, jurisdictionSelect.value, districtSelect.value)
  /\ UNCHANGED <<serverVars, countiesPending, filterFetches, countySelect,
                 jurisdictionSelect, districtSelect>>

\* The response of a /api/precincts fetch arrives (lines 144-226): nothing
\* is drawn for an empty array, else the layer built from the features is
\* assigned to currentLayer and added to the map.
FeaturesArrive(f) ==
  /\ f \in inFlight /\ dbStep = 4
  /\ inFlight' = inFlight \ {f}
  /\ IF PrecinctsBody(precincts, f.query) = {}
     THEN UNCHANGED <<layers, currentLayer>>
     ELSE /\ currentLayer' = f.call
          /\ layers' = layers \cup {f.call}
  /\ UNCHANGED <<serverVars, calls, timerPending, countiesPending, filterFetches,
                 countySelect, jurisdictionSelect, districtSelect>>

\* ----------------------------------------------------- specifications
\* The whole server: both loads racing each other and the requests.
LoadFeatures ==
  {f \in FeaturePool : Prop(f.properties, "county") \in {Str("Dallas"), Str("Tarrant")}
                       /\ Prop(f.properties, "city") # Str("Select Jurisdiction")}
LoadRecords == {r \in RecordPool : r.votes # Str("abc")}

Init == InitServer(SeqsUpTo(LoadFeatures, MaxFeatures), SeqsUpTo(LoadRecords, MaxRecords))

Next ==
  \/ DropPrecincts
  \/ DropResults
  \/ CreatePrecincts
  \/ CreateResults
  \/ \E i \in stmtQueue : PrecinctInsert(i)
  \/ Finalize
  \/ CsvData
  \/ \E i \in resultsQueue : ResultInsert(i)
  \/ CsvEnd
  \/ GetFilters
  \/ GetPrecincts(NoQuery)
  \/ GetResults(KeyQuery(Str("P1")))
  \/ Sent
  \/ Restart

Spec == Init /\ [][Next]_vars

\* The precincts side: every file over the feature pool, an empty CSV, and
\* every request of the three filter endpoints.
InitQuery == InitServer(SeqsUpTo(FeaturePool, MaxFeatures), {<<>>})

NextQuery ==
  \/ DropPrecincts
  \/ DropResults
  \/ CreatePrecincts
  \/ CreateResults
  \/ \E i \in stmtQueue : PrecinctInsert(i)
  \/ Finalize
  \/ CsvEnd
  \/ GetFilters
  \/ \E c \in CountyParams : GetJurisdictions(Query(c, Undefined, Undefined))
  \/ \E c \in CountyParams, j \in JurisdictionParams : GetDistricts(Query(c, j, Undefined))
  \/ \E c \in CountyParams, j \in JurisdictionParams, d \in DistrictParams :
       GetPrecincts(Query(c, j, d))
  \/ Sent

SpecQuery == InitQuery /\ [][NextQuery]_vars

\* The results side: every file over the record pool, an empty GeoJSON file.
InitResults == InitServer({<<>>}, SeqsUpTo(RecordPool, MaxRecords))

NextResults ==
  \/ DropPrecincts
  \/ DropResults
  \/ CreatePrecincts
  \/ CreateResults
  \/ Finalize
  \/ CsvData
  \/ \E i \in resultsQueue : ResultInsert(i)
  \/ CsvEnd
  \/ \E k \in PctkeyParams : GetResults(KeyQuery(k))
  \/ Sent

SpecResults == InitResults /\ [][NextResults]_vars

\* The mapping of a feature to its row: a file of one feature, or of that
\* feature after a first one, over every combination of property values.
First == Feat([county |-> Str("Tarrant")], JNull)

InitMap ==
  /\ \E f \in WideFeatures :
       \E features \in {<<f>>, <<First, f>>} : Startup(features, <<>>, {}, {})
  /\ ClientIdle

NextMap ==
  \/ DropPrecincts
  \/ DropResults
  \/ CreatePrecincts
  \/ CreateResults
  \/ \E i \in stmtQueue : PrecinctInsert(i)
  \/ Finalize
  \/ CsvEnd

SpecMap == InitMap /\ [][NextMap]_vars

\* The map client against a server that loads a file of two features of
\* two counties.
ClientFeatures ==
  << Feat([pctkey |-> Str("P1"), county |-> Str("Dallas"), city |-> Str("Irving"),
           us_congress |-> Num(32)], Point(-3, 2)),
     Feat([county |-> Str("Tarrant")], Point(2, -1)) >>

InitClient == InitServer({ClientFeatures}, {<<>>})

NextClient ==
  \/ DropPrecincts
  \/ DropResults
  \/ CreatePrecincts
  \/ CreateResults
  \/ \E i \in stmtQueue : PrecinctInsert(i)
  \/ Finalize
  \/ CsvEnd
  \/ CountiesArrive
  \/ \E v \in Range(countySelect.options) \cup {""} : CountyChange(v)
  \/ \E f \in filterFetches : JurisdictionsArrive(f)
  \/ \E v \in Range(jurisdictionSelect.options) \cup {""} : JurisdictionChange(v)
  \/ \E f \in filterFetches : DistrictsArrive(f)
  \/ \E v \in Range(districtSelect.options) \cup {""} : DistrictChange(v)
  \/ InitialUpdate
  \/ \E f \in inFlight : FeaturesArrive(f)

SpecClient == InitClient /\ [][NextClient]_vars

\* ------------------------------------------------------------ claims
\* Ascending in the collation, no value twice.
Ascending(seq) == \A i, j \in DOMAIN seq : i < j => Rank(seq[i]) < Rank(seq[j])

\* The jurisdictions of the rows of a county, the districts of the rows of
\* a county and jurisdiction.
JurisdictionsOf(X) == {r.jurisdiction : r \in {x \in precincts : x.county = X}}
DistrictsOf(X, Y) ==
  {r.district : r \in {x \in precincts : x.county = X /\ x.jurisdiction = Y}}

\* C1 as stated: for every county X and jurisdiction Y given in the request,
\* /api/jurisdictions?county=X answers 200 with exactly the jurisdictions of
\* the rows of county X and /api/districts?county=X&jurisdiction=Y with
\* exactly the districts of the rows of X and Y, each list ascending without
\* duplicates (so empty when no row matches).
C1_AsStated ==
  /\ (res.endpoint = "jurisdictions" /\ res.query.county.t = "string") =>
       /\ res.status = 200
       /\ Range(res.body) = JurisdictionsOf(res.query.county.s)
       /\ Ascending(res.body)
  /\ (res.endpoint = "districts" /\ res.query.county.t = "string"
        /\ res.query.jurisdiction.t = "string") =>
       /\ res.status = 200
       /\ Range(res.body) = DistrictsOf(res.query.county.s, res.query.jurisdiction.s)
       /\ Ascending(res.body)

\* C1 amended: the same for every county X other than the sentinel "Select
\* County" and every jurisdiction Y other than the sentinel "Select
\* Jurisdiction"; for a sentinel the answer is 200 with the empty array,
\* whatever the rows hold.
C1_ExactSortedLists ==
  /\ (res.endpoint = "jurisdictions" /\ res.query.county.t = "string") =>
       /\ res.status = 200
       /\ Ascending(res.body)
       /\ IF res.query.county = Str("Select County") THEN res.body = <<>>
          ELSE Range(res.body) = JurisdictionsOf(res.query.county.s)
  /\ (res.endpoint = "districts" /\ res.query.county.t = "string"
        /\ res.query.jurisdiction.t = "string") =>
       /\ res.status = 200
       /\ Ascending(res.body)
       /\ IF \/ res.query.county = Str("Select County")
             \/ res.query.jurisdiction = Str("Select Jurisdiction")
          THEN res.body = <<>>
          ELSE Range(res.body)
                 = DistrictsOf(res.query.county.s, res.query.jurisdiction.s)

\* A jurisdictions answer of two values, which the order decides.
C1_Witness ==
  /\ res.endpoint = "jurisdictions"
  /\ res.query.county = Str("Dallas")
  /\ Len(res.body) = 2

\* C2: once the precincts load has completed, the answer to /api/precincts
\* without parameters holds one Feature per row of the table, and the
\* geometry of the Feature of a row, parsed from the stored text, equals
\* the geometry object of the feature of the file the row was made from.
C2_AllRowsRoundTrip ==
  (res.endpoint = "precincts" /\ res.query = NoQuery /\ PrecinctsLoaded) =>
    /\ res.status = 200
    /\ Cardinality(res.body) = Cardinality(precincts)
    /\ \A r \in precincts :
         \E f \in res.body :
           /\ f.type = "Feature"
           /\ f.properties.pctkey = r.pctkey
           /\ f.geometry = geojson[r.src + 1].geometry

\* Two rows answered after the load, one of them with a geometry of nested
\* arrays and negative coordinates.
C2_Witness ==
  /\ res.endpoint = "precincts" /\ res.query = NoQuery /\ PrecinctsLoaded
  /\ Cardinality(res.body) = 2
  /\ \E f \in res.body : f.geometry = Line(0, 1, -2, 3)

\* The records of the file with key K, by position.
RecordsOf(K) == {i \in DOMAIN csv : csv[i].pctkey = K}

\* The object of a record with its fields as the file gives them.
AsProvided(rec) ==
  [pctkey |-> rec.pctkey, office |-> rec.office, candidate |-> rec.candidate,
   votes |-> rec.votes, party |-> rec.party_simplified]

\* The same with the votes text read as a number when it is an integer literal.
IsIntegerText(v) == \E i \in SqlIntegers : ToString(i) = v.s
WithVotesAsNumber(rec) ==
  [AsProvided(rec) EXCEPT
     !.votes = IF IsIntegerText(rec.votes)
               THEN Num(CHOOSE i \in SqlIntegers : ToString(i) = rec.votes.s)
               ELSE rec.votes]

\* The answer holds, for every object, as many rows as records of key K give
\* that object under the reading Obj of a record.
OneRowPerRecord(Obj(_)) ==
  LET K == res.query.pctkey
      expected == {Obj(csv[i]) : i \in RecordsOf(K)}
  IN /\ res.status = 200
     /\ DOMAIN res.body = expected
     /\ \A o \in expected :
          res.body[o] = Cardinality({i \in RecordsOf(K) : Obj(csv[i]) = o})

\* C3 as stated: once the results load has completed, /api/results?pctkey=K
\* answers one row per record of key K and no other, each with office,
\* candidate, votes and party exactly as the record gives them.
C3_AsStated ==
  (res.endpoint = "results" /\ res.query.pctkey.t = "string" /\ ResultsLoaded) =>
    OneRowPerRecord(AsProvided)

\* C3 amended: one row per record of key K and no other, each with office,
\* candidate and party as the record gives them, and with votes as the
\* number the record's text denotes when that text is a numeric literal (the
\* column is declared INTEGER) and as the unchanged text otherwise.
C3_RowsPerRecord ==
  (res.endpoint = "results" /\ res.query.pctkey.t = "string" /\ ResultsLoaded) =>
    OneRowPerRecord(WithVotesAsNumber)

\* The same record twice in the file, answered as two rows.
C3_Witness ==
  /\ res.endpoint = "results" /\ ResultsLoaded
  /\ \E o \in DOMAIN res.body : res.body[o] = 2 /\ o.votes = Num(10)

\* The request with every parameter that holds its sentinel left out.
Omit(q) ==
  [county |-> IF q.county = Str("Select County") THEN Undefined ELSE q.county,
   jurisdiction |-> IF q.jurisdiction = Str("Select Jurisdiction")
                    THEN Undefined ELSE q.jurisdiction,
   district |-> IF q.district = Str("Select District") THEN Undefined ELSE q.district,
   pctkey |-> q.pctkey]

\* C4: a request of a filter endpoint with a sentinel as a parameter is
\* answered as the same request without that parameter: /api/precincts does
\* not filter on it, /api/jurisdictions and /api/districts answer the empty
\* array.
C4_SentinelIsOmitted ==
  /\ res.endpoint = "precincts" =>
       res.body = PrecinctsBody(precincts, Omit(res.query))
  /\ res.endpoint = "jurisdictions" =>
       /\ res.body = JurisdictionsBody(precincts, Omit(res.query))
       /\ res.query.county = Str("Select County") => res.body = <<>>
  /\ res.endpoint = "districts" =>
       /\ res.body = DistrictsBody(precincts, Omit(res.query))
       /\ (\/ res.query.county = Str("Select County")
           \/ res.query.jurisdiction = Str("Select Jurisdiction")) => res.body = <<>>

\* /api/precincts answered with rows of another county for the county
\* sentinel and a real jurisdiction.
C4_Witness ==
  /\ res.endpoint = "precincts"
  /\ res.query.county = Str("Select County")
  /\ res.query.jurisdiction = Str("Irving")
  /\ res.body # {}
  /\ \A f \in res.body : f.properties.county = "Dallas"

\* The feature a row was made from, and whether it has a property.
FeatureOf(r) == geojson[r.src + 1]
Has(feat, name) == name \in DOMAIN feat.properties
SynthesizedKey(r) == "precinct_" \o ToString(r.src)

\* C5 as stated: the row of a feature that has a pctkey property has that
\* property as its key, the row of a feature without one has the key
\* precinct_<i>, i the zero-based position of the feature in the file.
C5_AsStated ==
  \A r \in precincts :
    IF Has(FeatureOf(r), "pctkey")
    THEN r.pctkey = ToStr(FeatureOf(r).properties.pctkey)
    ELSE r.pctkey = SynthesizedKey(r)

\* C5 amended: the row of a feature whose pctkey property is truthy (present
\* and not null, "", 0 or false) has that property as its key; the row of
\* every other feature, the ones without the property and the ones whose
\* value is falsy, has the key precinct_<i>, i the zero-based position of the
\* feature in the file, whatever the order in which the inserts complete.
C5_KeyOrPosition ==
  \A r \in precincts :
    LET k == Prop(FeatureOf(r).properties, "pctkey")
    IN IF k \notin {Undefined, Null, Str(""), Num(0)}
       THEN r.pctkey = ToStr(k)
       ELSE r.pctkey = SynthesizedKey(r)

\* The second feature of a file, whose pctkey is the empty string, stored
\* under precinct_1.
C5_Witness ==
  \E r \in precincts :
    /\ r.src = 1
    /\ Has(FeatureOf(r), "pctkey") /\ FeatureOf(r).properties.pctkey = Str("")
    /\ r.pctkey = "precinct_1"

\* The first value of a sequence that satisfies Keep, or the default.
FirstThat(Keep(_), values, default) ==
  IF \E i \in DOMAIN values : Keep(values[i])
  THEN values[CHOOSE i \in DOMAIN values :
                /\ Keep(values[i])
                /\ \A j \in 1 .. i - 1 : ~Keep(values[j])]
  ELSE default

Present(v) == v # Undefined
NotFalsy(v) == v \notin {Undefined, Null, Str(""), Num(0)}

DistrictSources(feat) ==
  << Prop(feat.properties, "us_congress"), Prop(feat.properties, "state_senate"),
     Prop(feat.properties, "state_house") >>

\* The columns of a row are the first value Keep accepts among the sources
\* of each, as text, and "Unknown" when Keep accepts none.
MappedBy(Keep(_), r) ==
  LET feat == FeatureOf(r)
  IN /\ r.district = ToStr(FirstThat(Keep, DistrictSources(feat), Str("Unknown")))
     /\ r.county
          = ToStr(FirstThat(Keep, <<Prop(feat.properties, "county")>>, Str("Unknown")))
     /\ r.jurisdiction
          = ToStr(FirstThat(Keep, <<Prop(feat.properties, "city")>>, Str("Unknown")))

\* C6 as stated: the district of a row is the first property that is not
\* absent among us_congress, state_senate and state_house, and "Unknown"
\* only when all three are absent; its county is properties.county and
\* its jurisdiction properties.city, "Unknown" only when the property is
\* absent.
C6_AsStated == \A r \in precincts : MappedBy(Present, r)

\* C6 amended: the district of a row is the text of the first property that
\* is truthy (present and not null, "", 0 or false) among us_congress,
\* state_senate and state_house, in that order, and "Unknown" when none is
\* truthy; its county is properties.county and its jurisdiction
\* properties.city, each replaced by "Unknown" when the property is absent
\* or falsy.
C6_FirstTruthy == \A r \in precincts : MappedBy(NotFalsy, r)

\* A row whose us_congress is the number 0 and whose district is the text
\* of its state_senate.
C6_Witness ==
  \E r \in precincts :
    /\ Prop(FeatureOf(r).properties, "us_congress") = Num(0)
    /\ Prop(FeatureOf(r).properties, "state_senate") = Num(9)
    /\ r.district = "9"

\* The keys the features of the file map to, and the rows of this run.
MappedKeys == {PrecinctRow(geojson[i], i - 1).pctkey : i \in DOMAIN geojson}
Loaded == dbStep = 4 /\ PrecinctsLoaded /\ ResultsLoaded

\* C7: whatever a previous run left in the store and in whatever order the
\* inserts complete, once the schema initialization and both loads have
\* completed every row of both tables was inserted by this run from the
\* source files, and the row counts are the same in every run: the number
\* of distinct keys of the GeoJSON file and the number of records of the CSV.
C7_FreshDeterministicReload ==
  Loaded =>
    /\ \A r \in precincts :
         /\ r.run = run
         /\ r.src + 1 \in DOMAIN geojson
         /\ r = Stamp(PrecinctRow(geojson[r.src + 1], r.src), run)
    /\ \A r \in results :
         /\ r.run = run
         /\ r.src \in DOMAIN csv
         /\ r = Stamp(ResultRow(csv[r.src], r.src), run)
    /\ Cardinality(precincts) = Cardinality(MappedKeys)
    /\ Cardinality(results) = Len(csv)

\* The second run has completed both loads over the rows of the first.
C7_Witness ==
  /\ Loaded /\ run = 2
  /\ Cardinality(precincts) = 2 /\ Cardinality(results) = 2

\* The requests the subset property is stated for.
AllQueries ==
  {Query(c, j, d) : c \in CountyParams, j \in JurisdictionParams, d \in DistrictParams}
    \cup {KeyQuery(k) : k \in PctkeyParams}

\* Every row counted in multiset a is counted at least as often in b.
SubBag(a, b) == \A o \in DOMAIN a : o \in DOMAIN b /\ a[o] <= b[o]

\* C8: within a run, from the creation of the tables on, every step leaves
\* in both tables the rows they had (rows are only added), so that what any
\* request returns is contained in what the same request returns after the
\* step, hence after both loads; and a step that answers a request leaves
\* both tables as they were.
C8_AnswersOnlyGrow ==
  [][ /\ (dbStep = 4 /\ dbStep' = 4) =>
           /\ precincts \subseteq precincts'
           /\ results \subseteq results'
           /\ \A q \in AllQueries :
                /\ Range(FiltersBody(precincts)) \subseteq Range(FiltersBody(precincts'))
                /\ Range(JurisdictionsBody(precincts, q))
                     \subseteq Range(JurisdictionsBody(precincts', q))
                /\ Range(DistrictsBody(precincts, q))
                     \subseteq Range(DistrictsBody(precincts', q))
                /\ PrecinctsBody(precincts, q) \subseteq PrecinctsBody(precincts', q)
                /\ SubBag(ResultsBody(results, q), ResultsBody(results', q))
      /\ res' # NoResponse => (precincts' = precincts /\ results' = results)
    ]_vars

\* A request answered from a partly loaded table: one feature is stored and
\* returned while the insert of another, of a different key, is still queued.
C8_Witness ==
  /\ res.endpoint = "precincts"
  /\ Cardinality(res.body) = 1
  /\ \E i \in stmtQueue :
       \A r \in precincts : r.pctkey # PrecinctRow(geojson[i + 1], i).pctkey

\* C9: in every state no two rows of precincts have the same key, and no
\* refused insert is logged; once the load has completed there is exactly
\* one row for every key the features map to, so that the table holds as
\* many rows as there are distinct keys, while the summary reports the
\* number of features.
C9_OneRowPerKey ==
  /\ \A r1, r2 \in precincts : r1.pctkey = r2.pctkey => r1 = r2
  /\ \A l \in log : l.msg # "Error inserting precinct"
  /\ PrecinctsLoaded =>
       /\ {r.pctkey : r \in precincts} = MappedKeys
       /\ Cardinality(precincts) = Cardinality(MappedKeys)
       /\ LogLine("GeoJSON imported", ToString(Len(geojson))) \in log

\* A feature without pctkey at position 1 and a feature whose pctkey is
\* precinct_1: one row, two features reported.
C9_Witness ==
  /\ PrecinctsLoaded
  /\ Len(geojson) = 2
  /\ ~Has(geojson[2], "pctkey")
  /\ Prop(geojson[1].properties, "pctkey") = Str("precinct_1")
  /\ Cardinality(precincts) = 1
  /\ LogLine("GeoJSON imported", "2") \in log
  /\ LogLine("Total precincts in database", "1") \in log

\* C10: every precinct layer on the map is the one currentLayer refers to,
\* so at most one is displayed, and once no /api/precincts fetch is in
\* flight no layer of another call than the latest updateMap is displayed.
C10_OneCurrentLayer ==
  /\ layers \subseteq {currentLayer}
  /\ inFlight = {} => layers \subseteq {calls}

\* The rows the precincts loader inserts from the file of this run, and the
\* answers the two filter endpoints can have given the page for a selection:
\* the answer over the rows loaded at some moment, nothing being fetched
\* for an empty selection.
FileRows == {Stamp(PrecinctRow(geojson[i], i - 1), run) : i \in DOMAIN geojson}
JurisdictionsReturned(county) ==
  IF county = "" THEN {<<>>}
  ELSE {JurisdictionsBody(P, Query(Str(county), Undefined, Undefined)) :
          P \in SUBSET FileRows}
DistrictsReturned(county, jurisdiction) ==
  IF county = "" \/ jurisdiction = "" THEN {<<>>}
  ELSE {DistrictsBody(P, Query(Str(county), Str(jurisdiction), Undefined)) :
          P \in SUBSET FileRows}

\* C11: whenever no jurisdictions or districts fetch is in flight, the
\* options after the placeholder of the jurisdiction select are exactly
\* the jurisdictions returned for the selected county, and the options
\* after the placeholder of the district select exactly the districts
\* returned for the selected county and jurisdiction; nothing of a
\* response to a superseded selection remains.
C11_OptionsMatchSelection ==
  filterFetches = {} =>
    /\ jurisdictionSelect.options \in JurisdictionsReturned(countySelect.value)
    /\ districtSelect.options \in
         DistrictsReturned(countySelect.value, jurisdictionSelect.value)

====
